---- MODULE Spec2Model ----
(***************************************************************************)
(* Model of src/app.py, the Streamlit report "Fire insurance in           *)
(* California".  The script is re-executed from top to bottom on the      *)
(* first page load and after every widget change; one action per widget   *)
(* models the whole re-execution.  The three data sources (fire history   *)
(* table, climate table, burnt / recovered homes) are the inputs.         *)
(*                                                                         *)
(* Number representations:                                                 *)
(*   YEAR_      a string, written as a sequence of one-character strings;  *)
(*              NA is the missing value                                    *)
(*   datetimes  days since 1970-01-01                                      *)
(*   zestimate  half dollars in the csv, whole dollars once rounded        *)
(*   pvalue     thousandths                                                *)
(*   means      exact fractions [num, den] in lowest terms                 *)
(***************************************************************************)
EXTENDS Integers, Sequences, FiniteSets, TLC

VARIABLES
    gdbtable,        \* rows of data/a000000af.gdbtable
    nfdrs_pkl,       \* rows of data/nfdrs.pkl
    burnt_csv,       \* rows of data/ALL_burnt_homes.csv
    recovered_csv,   \* rows of data/ALL_recovered_homes.csv
    cache,           \* the st.cache entry of load_data
    session,         \* "new" before the first run of the script, then "live"
    window, cause_option, show_option,          \* widgets of the fire section
    nfdrs_window, nfdrs_option, nfdrs_var,      \* widgets of the climate section
    df, tot, line_smooth, fire_chart,           \* fire section
    pvalue, stationarity, narrative,
    nfdrs_smooth, nfdrs_chart, vis,             \* climate section
    homes, destroyed_value, recovered_value,    \* recovery section
    nrow, rough_buildings, recovered_pct,
    rendered,        \* the elements the last run put on the page
    exception        \* the exception that ended the last run, "" if none

data    == <<gdbtable, nfdrs_pkl, burnt_csv, recovered_csv>>
widgets == <<window, cause_option, show_option, nfdrs_window, nfdrs_option, nfdrs_var>>
fireOut == <<df, tot, line_smooth, fire_chart, pvalue, stationarity, narrative>>
climOut == <<nfdrs_smooth, nfdrs_chart, vis>>
recOut  == <<homes, destroyed_value, recovered_value, nrow, rough_buildings, recovered_pct>>
vars    == <<data, cache, session, widgets, fireOut, climOut, recOut, rendered, exception>>

----------------------------------------------------------------------------
(* Arithmetic helpers *)

Max(a, b) == IF a >= b THEN a ELSE b
Min(a, b) == IF a <= b THEN a ELSE b

RECURSIVE GCD(_, _)
GCD(a, b) == IF b = 0 THEN a ELSE GCD(b, a % b)

\* the quotient s / n of a non-negative s by a positive n
Frac(s, n) == LET g == GCD(s, n) IN [num |-> s \div g, den |-> n \div g]

\* np.round(num / den, 0): to the nearest integer, ties to the even one
np_round(num, den) ==
    LET q == num \div den
        r == num % den
    IN  IF 2 * r < den THEN q
        ELSE IF 2 * r > den THEN q + 1
        ELSE IF q % 2 = 0 THEN q ELSE q + 1

----------------------------------------------------------------------------
(* load_data *)

NA == <<"NA">>

DigitVal(c) ==
    CASE c = "0" -> 0 [] c = "1" -> 1 [] c = "2" -> 2 [] c = "3" -> 3
      [] c = "4" -> 4 [] c = "5" -> 5 [] c = "6" -> 6 [] c = "7" -> 7
      [] c = "8" -> 8 [] c = "9" -> 9

RECURSIVE to_numeric(_)
to_numeric(s) ==
    IF s = <<>> THEN 0
    ELSE 10 * to_numeric(SubSeq(s, 1, Len(s) - 1)) + DigitVal(s[Len(s)])

HasYear(r) == r.YEAR_ /= NA /\ r.YEAR_ /= <<>>

load_data(table) ==
    LET kept == SelectSeq(table, HasYear)
    IN  [i \in 1..Len(kept) |-> kept[i] @@ ("YEAR" :> to_numeric(kept[i].YEAR_))]

\* st.cache: the body of load_data runs on the first call only
cached_load_data(entry, table) ==
    IF entry.hit THEN entry.value ELSE load_data(table)

----------------------------------------------------------------------------
(* Fire section: cause filter, aggregation by year, trailing mean, ADF test *)

cause_dict ==
    ( "Lightning" :> 1 ) @@ ( "Equipment Use" :> 2 ) @@ ( "Smoking" :> 3 )
    @@ ( "Campfire" :> 4 ) @@ ( "Debris" :> 5 ) @@ ( "Railroad" :> 6 )
    @@ ( "Arson" :> 7 ) @@ ( "Playing with fire" :> 8 )
    @@ ( "Miscellaneous" :> 9 ) @@ ( "Vehicle" :> 10 ) @@ ( "Powerline" :> 11 )
    @@ ( "Unknown / Unidentified" :> 14 ) @@ ( "Escaped Prescribed Burn" :> 18 )

CauseOptions == {"All"} \cup DOMAIN cause_dict

\* df[df.CAUSE == code]: a new frame holding the matching rows, in order
RowsWithCause(frame, code) ==
    LET Matches(r) == r.CAUSE = code IN SelectSeq(frame, Matches)

\* variant: the filter narrows the cached frame itself
RebindDfInPlace(cached, c) ==
    LET sub == IF c /= "All" THEN RowsWithCause(cached, cause_dict[c]) ELSE cached
    IN  [df |-> sub, cached |-> sub]

\* the name df after lines 132-133, and the object the cache still holds:
\* boolean indexing builds a new frame and the assignment rebinds the name
RebindDf(cached, c) ==
    [df     |-> IF c /= "All" THEN RowsWithCause(cached, cause_dict[c]) ELSE cached,
     cached |-> cached]

RECURSIVE SortAsc(_)
SortAsc(S) ==
    IF S = {} THEN <<>>
    ELSE LET m == CHOOSE x \in S : \A y \in S : x <= y
         IN  <<m>> \o SortAsc(S \ {m})

RECURSIVE FirstSeen(_, _)
FirstSeen(frame, seen) ==
    IF frame = <<>> THEN <<>>
    ELSE IF Head(frame).YEAR \in seen THEN FirstSeen(Tail(frame), seen)
    ELSE <<Head(frame).YEAR>> \o FirstSeen(Tail(frame), seen \cup {Head(frame).YEAR})

\* variant: groupby(sort=False), the keys in order of first appearance
GroupKeysUnsorted(frame) == FirstSeen(frame, {})

\* the group keys of groupby('YEAR'): the distinct years, ascending
GroupKeys(frame) == SortAsc({frame[i].YEAR : i \in 1..Len(frame)})

RECURSIVE SumAcres(_, _)
SumAcres(frame, y) ==
    IF frame = <<>> THEN 0
    ELSE (IF Head(frame).YEAR = y THEN Head(frame).GIS_ACRES ELSE 0)
         + SumAcres(Tail(frame), y)

\* df.groupby('YEAR')['GIS_ACRES'].sum(), reset_index, columns year / acres
GroupSum(frame) ==
    LET keys == GroupKeys(frame)
    IN  [i \in 1..Len(keys) |-> [year |-> keys[i], acres |-> SumAcres(frame, keys[i])]]

YearCutoff == 1910

\* variant: tot.year >= 1910
AfterCutoffInclusive(r) == r.year >= YearCutoff

\* tot.year > 1910
AfterCutoff(r) == r.year > YearCutoff

LeapDaysBefore(y) == ((y - 1) \div 4) - ((y - 1) \div 100) + ((y - 1) \div 400)

\* pd.to_datetime(year, format='%Y'): January 1st of the year
to_datetime(y) == 365 * (y - 1970) + LeapDaysBefore(y) - LeapDaysBefore(1970)

\* lines 136-141
Aggregate(frame) ==
    LET kept == SelectSeq(GroupSum(frame), AfterCutoff)
    IN  [i \in 1..Len(kept) |->
            [year |-> to_datetime(kept[i].year), acres |-> kept[i].acres]]

RECURSIVE SumField(_, _, _, _)
SumField(rows, field, a, b) ==
    IF a > b THEN 0
    ELSE IF a = b THEN rows[a][field]
    ELSE LET m == (a + b) \div 2
         IN  SumField(rows, field, a, m) + SumField(rows, field, m + 1, b)

\* variant: a frame one row short at its start
FrameShort(n, i, lo, hi) == [first |-> Max(1, i + lo + 1), last |-> Min(n, i + hi)]

\* the rows of the window frame [lo, hi] around row i, clipped to the table
Frame(n, i, lo, hi) == [first |-> Max(1, i + lo), last |-> Min(n, i + hi)]

\* transform_window(rolling_mean='mean(<field>)', frame=[lo, hi]) with no
\* sort: the window runs over the rows in the order of the table
transform_window(rows, field, lo, hi) ==
    [i \in 1..Len(rows) |->
        LET f == Frame(Len(rows), i, lo, hi)
        IN  rows[i] @@ ("rolling_mean" :>
                Frac(SumField(rows, field, f.first, f.last), f.last - f.first + 1))]

\* adfuller(x, autolag='t-stat') raises ValueError ("sample size is too
\* short") when nobs // 2 - 2 < 0, that is below this number of observations
AdfMinObs == 4

\* p-values the test may return, in thousandths
PValues == {950, 951}

\* variant: pvalue < 0.05
IsNonStationaryWrong(p) == p < 50

\* 1 - pvalue < 0.05
IsNonStationary(p) == 1000 - p < 50

Classify(p) == IF IsNonStationary(p) THEN "non-stationary" ELSE "stationary"

\* the layers of the chart handed to st.altair_chart
FireLayers(show) == IF show = "yes" THEN <<"line_raw", "line_smooth">> ELSE <<"line_smooth">>

----------------------------------------------------------------------------
(* Climate section *)

\* vis parameters, lines 286-289
VisDomains(option) ==
    IF option = "False"
    THEN [fm100 |-> <<8, 18>>, bi |-> <<20, 50>>]
    ELSE [fm100 |-> <<0, 30>>, bi |-> <<0, 80>>]

NfdrsLayers(option) ==
    IF option = "True" THEN <<"nfdrs_data", "nfdrs_smooth">> ELSE <<"nfdrs_smooth">>

----------------------------------------------------------------------------
(* Recovery section *)

\* recovered['status'] = "recovered"
WithStatus(rows) == [i \in 1..Len(rows) |-> rows[i] @@ ("status" :> "recovered")]

\* the rows pd.merge(how='left', on=['address']) makes of one left row: one
\* per right row with the same address, or one with a missing status
JoinRow(l, right) ==
    LET SameAddress(r) == r.address = l.address
        hits == SelectSeq(right, SameAddress)
    IN  IF hits = <<>> THEN << l @@ ("status" :> "NaN") >>
        ELSE [j \in 1..Len(hits) |-> l @@ ("status" :> hits[j].status)]

\* variant: how='inner'
RECURSIVE merge_inner(_, _)
merge_inner(left, right) ==
    IF left = <<>> THEN <<>>
    ELSE LET SameAddress(r) == r.address = Head(left).address
         IN  (IF SelectSeq(right, SameAddress) = <<>> THEN <<>>
              ELSE JoinRow(Head(left), right))
             \o merge_inner(Tail(left), right)

\* pd.merge(burnt, recovered, how='left', on=['address'])
RECURSIVE merge_left(_, _)
merge_left(left, right) ==
    IF left = <<>> THEN <<>>
    ELSE JoinRow(Head(left), right) \o merge_left(Tail(left), right)

\* variant: the chained assignment writes to a copy
FillStatusNoOp(rows) == rows

\* homes.status[homes.status != 'recovered'] = 'destroyed'
FillStatus(rows) ==
    [i \in 1..Len(rows) |->
        IF rows[i].status /= "recovered"
        THEN [rows[i] EXCEPT !.status = "destroyed"] ELSE rows[i]]

\* homes.zestimate = np.round(homes.zestimate, 0): half dollars to dollars
RoundZestimate(rows) ==
    [i \in 1..Len(rows) |-> [rows[i] EXCEPT !.zestimate = np_round(@, 2)]]

\* lines 366-368
Homes(burnt, recovered) ==
    RoundZestimate(FillStatus(merge_left(burnt, WithStatus(recovered))))

RECURSIVE SumByStatus(_, _)
SumByStatus(rows, status) ==
    IF rows = <<>> THEN 0
    ELSE (IF Head(rows).status = status THEN Head(rows).zestimate ELSE 0)
         + SumByStatus(Tail(rows), status)

----------------------------------------------------------------------------
(* One execution of the script with the given widget values *)

WindowDefault == 15
NfdrsWindowDefault == 200

Script(w, c, s, nw, no, nv) ==
    LET rb     == RebindDf(cached_load_data(cache, gdbtable), c)
        t      == Aggregate(rb.df)
        h      == Homes(burnt_csv, recovered_csv)
        dv     == SumByStatus(h, "destroyed")
        rv     == SumByStatus(h, "recovered")
    IN  /\ session' = "live"
        /\ cache' = [hit |-> TRUE, value |-> rb.cached]
        /\ df' = rb.df
        /\ tot' = t
        /\ line_smooth' = transform_window(t, "acres", -w, 0)
        /\ fire_chart' = FireLayers(s)
        /\ IF Len(t) < AdfMinObs
           THEN \* adfuller raises: the run ends at line 169
                /\ exception' = "ValueError"
                /\ rendered' = {"fire_chart"}
                /\ pvalue' = 0 /\ stationarity' = "" /\ narrative' = <<>>
                /\ nfdrs_smooth' = <<>> /\ nfdrs_chart' = <<>> /\ vis' = <<>>
                /\ homes' = <<>> /\ destroyed_value' = 0 /\ recovered_value' = 0
                /\ nrow' = 0 /\ rough_buildings' = 0 /\ recovered_pct' = 0
           ELSE \E p \in PValues :
                /\ pvalue' = p
                /\ stationarity' = Classify(p)
                /\ narrative' = <<c, Classify(p), np_round(1000 - p, 10)>>
                /\ nfdrs_smooth' = transform_window(nfdrs_pkl, nv, -nw, nw)
                /\ nfdrs_chart' = NfdrsLayers(no)
                /\ vis' = VisDomains(no)
                /\ homes' = h
                /\ destroyed_value' = dv
                /\ recovered_value' = rv
                /\ nrow' = Len(h)
                /\ rough_buildings' = np_round(Len(h), 10) * 10
                /\ IF rv + dv = 0
                   THEN \* the division at line 414 raises
                        /\ exception' = "ZeroDivisionError"
                        /\ recovered_pct' = 0
                        /\ rendered' = {"fire_chart", "adf_text", "nfdrs_chart", "deck"}
                   ELSE /\ exception' = ""
                        /\ recovered_pct' = np_round(1000 * rv, rv + dv)
                        /\ rendered' = {"fire_chart", "adf_text", "nfdrs_chart",
                                        "deck", "recovery_text"}
        /\ UNCHANGED data

----------------------------------------------------------------------------
(* Actions: the first page load and the widget changes *)

\* slider positions and cause names the user picks from
WindowChoices == {3, 15, 20}
CauseChoices == {"All", "Lightning", "Equipment Use"}
NfdrsWindowChoices == {120, 200}

\* the widgets after line 169 are on the page only if the run got there
ClimateWidgetsShown == "nfdrs_chart" \in rendered

Start ==
    /\ session = "new"
    /\ Script(window, cause_option, show_option, nfdrs_window, nfdrs_option, nfdrs_var)
    /\ UNCHANGED widgets

SetWindow ==
    /\ session = "live"
    /\ \E v \in WindowChoices \ {window} :
        /\ window' = v
        /\ Script(v, cause_option, show_option, nfdrs_window, nfdrs_option, nfdrs_var)
    /\ UNCHANGED <<cause_option, show_option, nfdrs_window, nfdrs_option, nfdrs_var>>

SetCause ==
    /\ session = "live"
    /\ \E v \in CauseChoices \ {cause_option} :
        /\ cause_option' = v
        /\ Script(window, v, show_option, nfdrs_window, nfdrs_option, nfdrs_var)
    /\ UNCHANGED <<window, show_option, nfdrs_window, nfdrs_option, nfdrs_var>>

SetShow ==
    /\ session = "live"
    /\ \E v \in {"no", "yes"} \ {show_option} :
        /\ show_option' = v
        /\ Script(window, cause_option, v, nfdrs_window, nfdrs_option, nfdrs_var)
    /\ UNCHANGED <<window, cause_option, nfdrs_window, nfdrs_option, nfdrs_var>>

SetNfdrsWindow ==
    /\ session = "live" /\ ClimateWidgetsShown
    /\ \E v \in NfdrsWindowChoices \ {nfdrs_window} :
        /\ nfdrs_window' = v
        /\ Script(window, cause_option, show_option, v, nfdrs_option, nfdrs_var)
    /\ UNCHANGED <<window, cause_option, show_option, nfdrs_option, nfdrs_var>>

SetNfdrsOption ==
    /\ session = "live" /\ ClimateWidgetsShown
    /\ \E v \in {"True", "False"} \ {nfdrs_option} :
        /\ nfdrs_option' = v
        /\ Script(window, cause_option, show_option, nfdrs_window, v, nfdrs_var)
    /\ UNCHANGED <<window, cause_option, show_option, nfdrs_window, nfdrs_var>>

SetNfdrsVar ==
    /\ session = "live" /\ ClimateWidgetsShown
    /\ \E v \in {"fm100", "bi"} \ {nfdrs_var} :
        /\ nfdrs_var' = v
        /\ Script(window, cause_option, show_option, nfdrs_window, nfdrs_option, v)
    /\ UNCHANGED <<window, cause_option, show_option, nfdrs_window, nfdrs_option>>

Next ==
    \/ Start
    \/ SetWindow
    \/ SetCause
    \/ SetShow
    \/ SetNfdrsWindow
    \/ SetNfdrsOption
    \/ SetNfdrsVar

----------------------------------------------------------------------------
(* Input data *)

FireRows == 6          \* rows of the fire history table
BurntRows == 3         \* rows of the burnt homes file
MaxRecovered == 2      \* most rows of the recovered homes file
FewNfdrsRows == 3      \* rows of the climate table where it is not the subject
NfdrsRows == 122       \* rows of the climate table: more than the smallest window spans

Cyc(column, i) == column[((i - 1) % Len(column)) + 1]

DigitChar == <<"0", "1", "2", "3", "4", "5", "6", "7", "8", "9">>

RECURSIVE Str(_)
Str(n) == IF n < 10 THEN <<DigitChar[n + 1]>>
          ELSE Str(n \div 10) \o <<DigitChar[(n % 10) + 1]>>

YearColumns ==
    { <<Str(2014), Str(2015), Str(2016), Str(2017), Str(2018), Str(2019), Str(2020)>>,
      <<Str(2019), Str(2014), Str(2018), Str(2014), Str(2017), Str(2016), Str(2015)>>,
      <<Str(1950), Str(1911), Str(1910), Str(2000), Str(1990), Str(1980), Str(1970)>>,
      <<Str(1910), Str(2018), Str(1911), Str(2018), <<>>, Str(2018), NA, Str(1905)>> }

CauseColumns == { <<1>>, <<1, 2>>, <<1, 1, 1, 1, 1, 2>> }

AcresColumns == { <<10, 25, 5>>, <<7>> }

GdbTable(years, causes, acres) ==
    [i \in 1..FireRows |->
        [YEAR_ |-> Cyc(years, i), CAUSE |-> Cyc(causes, i), GIS_ACRES |-> Cyc(acres, i)]]

GdbTables ==
    { GdbTable(y, c, a) : y \in YearColumns, c \in CauseColumns, a \in AcresColumns }

\* the date of row i of an n-row climate table, dates being 1..n
DateAt(order, n, i) ==
    CASE order = "sorted"  -> i
      [] order = "rotated" -> ((i + (n \div 2) - 1) % n) + 1
      [] order = "swapped" -> IF i = 1 THEN n ELSE IF i = n THEN 1 ELSE i

NfdrsTable(order, n) ==
    [i \in 1..n |->
        LET d == DateAt(order, n, i)
        IN  [date |-> d, bi |-> 20 + ((7 * d) % 31), fm100 |-> 8 + ((3 * d) % 11)]]

AddressColumns == { <<"A", "B", "C", "E">>, <<"A", "A", "B">> }

ZestimateColumns == { <<400, 201, 203>>, <<0>> }

BurntTable(addresses, zestimates) ==
    [i \in 1..BurntRows |->
        [address |-> Cyc(addresses, i), lat |-> 38 + i, lon |-> i - 123,
         zestimate |-> Cyc(zestimates, i)]]

BurntTables == { BurntTable(a, z) : a \in AddressColumns, z \in ZestimateColumns }

RecoveredTables ==
    UNION { [1..n -> [address : {"A", "D"}]] : n \in 0..MaxRecovered }

InitRun ==
    /\ cache = [hit |-> FALSE, value |-> <<>>]
    /\ session = "new"
    /\ window = WindowDefault /\ cause_option = "All" /\ show_option = "no"
    /\ nfdrs_window = NfdrsWindowDefault /\ nfdrs_option = "True" /\ nfdrs_var = "fm100"
    /\ df = <<>> /\ tot = <<>> /\ line_smooth = <<>> /\ fire_chart = <<>>
    /\ pvalue = 0 /\ stationarity = "" /\ narrative = <<>>
    /\ nfdrs_smooth = <<>> /\ nfdrs_chart = <<>> /\ vis = <<>>
    /\ homes = <<>> /\ destroyed_value = 0 /\ recovered_value = 0
    /\ nrow = 0 /\ rough_buildings = 0 /\ recovered_pct = 0
    /\ rendered = {} /\ exception = ""

FixedGdb == GdbTable(<<Str(2014), Str(2015), Str(2016), Str(2017), Str(2018), Str(2019), Str(2020)>>,
                     <<1, 2>>, <<10, 25, 5>>)
FixedNfdrs == NfdrsTable("sorted", FewNfdrsRows)
FixedBurnt == BurntTable(<<"A", "B", "C", "E">>, <<400, 201, 203>>)
FixedRecovered == << [address |-> "A"] >>

\* every fire history table, the other files fixed
Init ==
    /\ gdbtable \in GdbTables
    /\ nfdrs_pkl = FixedNfdrs
    /\ burnt_csv = FixedBurnt
    /\ recovered_csv = FixedRecovered
    /\ InitRun

\* every climate table, the other files fixed
InitClimate ==
    /\ gdbtable = FixedGdb
    /\ nfdrs_pkl \in { NfdrsTable(o, NfdrsRows) : o \in {"sorted", "rotated", "swapped"} }
    /\ burnt_csv = FixedBurnt
    /\ recovered_csv = FixedRecovered
    /\ InitRun

\* every pair of homes files, the other files fixed
InitRecovery ==
    /\ gdbtable = FixedGdb
    /\ nfdrs_pkl = FixedNfdrs
    /\ burnt_csv \in BurntTables
    /\ recovered_csv \in RecoveredTables
    /\ InitRun

Spec == Init /\ [][Next]_vars
SpecClimate == InitClimate /\ [][Next]_vars
SpecRecovery == InitRecovery /\ [][Next]_vars

----------------------------------------------------------------------------
(* Properties *)

RECURSIVE SumOver(_, _)
SumOver(S, f) ==
    IF S = {} THEN 0
    ELSE LET x == CHOOSE x \in S : TRUE IN f[x] + SumOver(S \ {x}, f)

\* the rows of the fire table that have a year and match the cause selection
Selected ==
    { i \in 1..Len(gdbtable) :
        /\ HasYear(gdbtable[i])
        /\ cause_option = "All" \/ gdbtable[i].CAUSE = cause_dict[cause_option] }

YearOfRow(i) == to_numeric(gdbtable[i].YEAR_)
SelectedIn(y) == { i \in Selected : YearOfRow(i) = y }
SelectedYears == { y \in { YearOfRow(i) : i \in Selected } : y > 1910 }
AcresColumn == [i \in 1..Len(gdbtable) |-> gdbtable[i].GIS_ACRES]

\* C1: after every run, the aggregated series holds exactly one (year, sum)
\* pair for each distinct year > 1910 among the records matching the cause
\* selection, the sum being the total GIS_ACRES of those records in that
\* year, and holds no other year.
C1_AggregateExact ==
    session = "live" =>
        /\ \A y \in SelectedYears :
             /\ Cardinality({ k \in 1..Len(tot) : tot[k].year = to_datetime(y) }) = 1
             /\ \A k \in 1..Len(tot) :
                  tot[k].year = to_datetime(y)
                      => tot[k].acres = SumOver(SelectedIn(y), AcresColumn)
        /\ \A k \in 1..Len(tot) :
             \E y \in SelectedYears : tot[k].year = to_datetime(y)

\* a cause is selected, a year sums two matching records, a record of that
\* year has another cause, and a matching record of 1910 or earlier is dropped
C1_Witness ==
    /\ session = "live"
    /\ cause_option /= "All"
    /\ \E y \in SelectedYears :
         /\ Cardinality(SelectedIn(y)) >= 2
         /\ \E i \in 1..Len(gdbtable) :
              HasYear(gdbtable[i]) /\ YearOfRow(i) = y /\ i \notin Selected
    /\ \E i \in Selected : YearOfRow(i) <= 1910
    /\ Len(tot) >= 2

\* C8: the keys of the aggregated series are strictly increasing, so each
\* appears at most once, whatever the cause selection.
C8_KeysIncreasing ==
    session = "live" =>
        \A i, j \in 1..Len(tot) : i < j => tot[i].year < tot[j].year

\* the filtered records are not in year order and give three or more keys
C8_Witness ==
    /\ session = "live"
    /\ Len(tot) >= 3
    /\ \E i, j \in 1..Len(df) : i < j /\ df[i].YEAR > df[j].YEAR

\* C6: the smoothed series has the length and the years of the aggregated
\* series, and its value at index i is the mean of the aggregated values at
\* indices max(first, i - window) .. i.
C6_TrailingMean ==
    session = "live" =>
        /\ Len(line_smooth) = Len(tot)
        /\ \A i \in 1..Len(tot) :
             LET from == IF i - window < 1 THEN 1 ELSE i - window
                 acres == [k \in 1..Len(tot) |-> tot[k].acres]
             IN  /\ line_smooth[i].year = tot[i].year
                 /\ line_smooth[i].rolling_mean.den > 0
                 /\ line_smooth[i].rolling_mean.num * (i - from + 1)
                      = line_smooth[i].rolling_mean.den * SumOver(from..i, acres)

\* the series is longer than the window, so the last window leaves the first
\* point out, and the values differ
C6_Witness ==
    /\ session = "live"
    /\ Len(tot) > window + 1
    /\ tot[1].acres /= tot[2].acres
    /\ line_smooth[Len(tot)].rolling_mean /= line_smooth[1].rolling_mean

\* C9: whenever the test returned a p-value, the label is 'non-stationary'
\* exactly when 1 - pvalue < 0.05 and 'stationary' otherwise.
C9_Label ==
    "adf_text" \in rendered =>
        /\ stationarity \in {"stationary", "non-stationary"}
        /\ stationarity = "non-stationary" <=> 1000 - pvalue < 50

C9_Witness ==
    /\ "adf_text" \in rendered
    /\ stationarity = "non-stationary"
    /\ narrative[2] = "non-stationary"

\* C10: every run leaves the cached fire records as load_data returned them,
\* and its outputs are those of a first run with the current widget values:
\* the records seen are all loaded records, narrowed by the current cause only.
C10_RerunLikeFirstRun ==
    session = "live" =>
        LET loaded == load_data(gdbtable)
            seen   == IF cause_option = "All" THEN loaded
                      ELSE RowsWithCause(loaded, cause_dict[cause_option])
        IN  /\ cache = [hit |-> TRUE, value |-> loaded]
            /\ df = seen
            /\ tot = Aggregate(seen)
            /\ line_smooth = transform_window(Aggregate(seen), "acres", 0 - window, 0)
            /\ fire_chart = FireLayers(show_option)

\* a re-run with a cause that narrows the records, the cache holding them all
C10_Witness ==
    /\ session = "live"
    /\ cause_option /= "All"
    /\ window /= WindowDefault
    /\ cache.hit
    /\ Len(df) > 0
    /\ Len(df) < Len(cache.value)

\* C3: when the stationarity test cannot run, the run does not abort: a
\* narrative is shown and the climate and recovery outputs are produced.
C3_NoAbort ==
    (session = "live" /\ Len(tot) < AdfMinObs) =>
        /\ exception = ""
        /\ narrative /= <<>>
        /\ {"adf_text", "nfdrs_chart", "deck", "recovery_text"} \subseteq rendered

BurntAddresses == { burnt_csv[i].address : i \in 1..Len(burnt_csv) }
RecoveredAddresses == { recovered_csv[j].address : j \in 1..Len(recovered_csv) }
NoDuplicate(rows) ==
    \A i, j \in 1..Len(rows) : rows[i].address = rows[j].address => i = j

\* C2: the joined output has as many rows as the destroyed-set input.
C2_RowCount ==
    "deck" \in rendered => nrow = Len(burnt_csv) /\ Len(homes) = Len(burnt_csv)

\* C4: every record of the destroyed set has an output row; a row is
\* 'recovered' if the recovered set has its address and 'destroyed'
\* otherwise; no row has an address the destroyed set lacks.
C4_Status ==
    "deck" \in rendered =>
        /\ \A i \in 1..Len(burnt_csv) :
             \E k \in 1..Len(homes) : homes[k].address = burnt_csv[i].address
        /\ \A k \in 1..Len(homes) :
             /\ homes[k].address \in BurntAddresses
             /\ homes[k].status \in {"recovered", "destroyed"}
             /\ homes[k].status = "recovered"
                  <=> homes[k].address \in RecoveredAddresses

\* both statuses occur and the recovered set has an address of its own
C4_Witness ==
    /\ "deck" \in rendered
    /\ \E k \in 1..Len(homes) : homes[k].status = "recovered"
    /\ \E k \in 1..Len(homes) : homes[k].status = "destroyed"
    /\ RecoveredAddresses \ BurntAddresses /= {}

\* C5: with no duplicate address in either set, the two sums by status add
\* up to the sum of the rounded zestimate over the destroyed set.
C5_ValueConserved ==
    ("deck" \in rendered /\ NoDuplicate(burnt_csv) /\ NoDuplicate(recovered_csv)) =>
        destroyed_value + recovered_value
            = SumOver(1..Len(burnt_csv),
                      [i \in 1..Len(burnt_csv) |-> np_round(burnt_csv[i].zestimate, 2)])

\* both sums are positive and a zestimate lies half way between two dollars
C5_Witness ==
    /\ "deck" \in rendered
    /\ NoDuplicate(burnt_csv) /\ NoDuplicate(recovered_csv)
    /\ destroyed_value > 0 /\ recovered_value > 0
    /\ \E i \in 1..Len(burnt_csv) : burnt_csv[i].zestimate % 2 = 1

\* the rows of the climate table at most w places away from row k in date order
DateRank(k) ==
    Cardinality({ j \in 1..Len(nfdrs_pkl) : nfdrs_pkl[j].date < nfdrs_pkl[k].date })
DateNeighbours(k, w) ==
    LET r == DateRank(k)
    IN  { j \in 1..Len(nfdrs_pkl) : DateRank(j) >= r - w /\ DateRank(j) <= r + w }

RECURSIVE SumInSet(_, _, _, _)
SumInSet(S, f, a, b) ==
    IF a > b THEN 0
    ELSE IF a = b THEN (IF a \in S THEN f[a] ELSE 0)
    ELSE LET m == (a + b) \div 2
         IN  SumInSet(S, f, a, m) + SumInSet(S, f, m + 1, b)

\* C7: whatever the row order of the climate table, the smoothed value of an
\* observation is the mean of the selected variable over the observations at
\* most nfdrs_window places before or after it in date order.
C7_DateOrder ==
    "nfdrs_chart" \in rendered =>
        \A k \in 1..Len(nfdrs_pkl) :
            LET S == DateNeighbours(k, nfdrs_window)
                column == [j \in 1..Len(nfdrs_pkl) |-> nfdrs_pkl[j][nfdrs_var]]
            IN  nfdrs_smooth[k].rolling_mean
                    = Frac(SumInSet(S, column, 1, Len(nfdrs_pkl)), Cardinality(S))

====
